---- MODULE Spec2Model ----
(***************************************************************************)
(* ai-code-sandbox: the container pool (ai_code_sandbox/container_pool.py),*)
(* the sandbox lifecycle (ai_code_sandbox/sandbox.py) and the persistent   *)
(* worker loop (scripts/persistent_worker.py).                             *)
(*                                                                         *)
(* Five specifications share the module:                                   *)
(*   SpecPool     one caller using the pool, each call a single step;      *)
(*   SpecThreads  several threads of one process using the pool, a step    *)
(*                per statement of acquire (nothing in the class locks);   *)
(*   Spec         the worker loop over the container runtime, one step per *)
(*                input line;                                              *)
(*   SpecSandbox  a library user making AICodeSandbox objects and closing  *)
(*                them, each call a single step;                           *)
(*   SpecCall     one call of run_code's pure parts: the command line for  *)
(*                a code string, the result for an exit code and streams.  *)
(***************************************************************************)
EXTENDS Integers, Sequences, FiniteSets, TLC

\* ------------------------------------------------------------------ bounds
MaxPoolSize == 2      \* largest pool_size tried
MaxTimeout  == 2      \* largest acquire timeout tried, in poll intervals
NumThreads  == 2      \* threads calling the pool in SpecThreads
MaxLines    == 2      \* input lines the worker reads
MaxExit     == 2      \* largest exit status tried
MaxStream   == 2      \* longest output stream tried, in bytes
MaxSandboxes == 2     \* AICodeSandbox objects a library user makes
MaxCode     == 3      \* longest code string quoted, in characters

\* A handle value that is no container / no image (Python's None).
NoneId == 0

VARIABLES
    \* ---- ContainerPool (container_pool.py)
    pool_made,     \* get_pool: the global _pool is not None
    pool_size,     \* ContainerPool.pool_size
    containers,    \* ContainerPool.containers: sequence of member ids
    in_use,        \* ContainerPool.in_use: set of member ids
    \* ---- history of the calls made on the pool
    lastAcquire,   \* the last acquire call: arguments, outcome, state around it
    released,      \* a release call has been made
    held,          \* handles returned by acquire and not released since
    lastRelease,   \* the last release call: handle, in_use before, raised
    lastCleanup,   \* the last cleanup call: what it tried on each member, raised
    \* ---- threads of SpecThreads, each inside or outside acquire
    tpc, ttimeout, telapsed, tidx, tcid, theld,
    \* ---- the container runtime (docker daemon) seen through docker.from_env()
    docker,        \* [cs: id -> [name, status], imgs: set of ids, next: fresh id,
                   \*  issued: stop/remove calls this layer made on the
                   \*  persistent container]
    \* ---- the worker process (persistent_worker.py)
    pc,            \* "await" (blocked on stdin) | "eof" | "interrupted"
    imported,      \* ai_code_sandbox is in sys.modules
    stdout,        \* lines written to sys.stdout since the last line was read,
                   \* in order (the reader has taken the earlier ones)
    stderr,        \* kinds of lines written to sys.stderr since then
    garbage,       \* AICodeSandbox objects no longer referenced, __del__ not yet run
    \* ---- history of the worker
    line,          \* the last line read
    nlines,        \* lines read so far
    nonblank,      \* of which not blank
    answered,      \* JSON documents written to stdout so far
    prevBad,       \* how the line before the last was malformed ("" if not)
    lastSetup,     \* what the last _setup_sandbox call did
    closedPid,     \* persistent container the last close() call was attached to
    lastExec,      \* how the code of the last request was run, and how it ended
    \* ---- a program using AICodeSandbox directly (sandbox.py)
    sandboxes,     \* the AICodeSandbox objects it constructed, in order
    lastClose,     \* the last close() call: the object before, what it issued
    \* ---- a single call of a function of the library
    call           \* the function, its arguments, whether it raised, its result

poolVars   == <<pool_made, pool_size, containers, in_use>>
poolHist   == <<lastAcquire, released, held, lastRelease, lastCleanup>>
threadVars == <<tpc, ttimeout, telapsed, tidx, tcid, theld>>

workerVars == <<docker, pc, imported, stdout, stderr, garbage>>
workerHist == <<line, nlines, nonblank, answered, prevBad, lastSetup, closedPid,
               lastExec>>
libVars    == <<sandboxes, lastClose, call>>

vars == <<poolVars, poolHist, threadVars, workerVars, workerHist, libVars>>

Threads == 1..NumThreads

\* Ids the runtime gives the pool's containers: fresh, one per creation.
RECURSIVE CreatedIds(_, _)
CreatedIds(mask, next) ==
    IF mask = <<>> THEN <<>>
    ELSE IF Head(mask)
         THEN <<next>> \o CreatedIds(Tail(mask), next + 1)
         ELSE CreatedIds(Tail(mask), next)

\* _init_pool: pool_size creations; a failed one is logged and skipped.
InitPool(mask) == CreatedIds(mask, 1)

\* A handle that was never a member of the pool.
ForeignId == MaxPoolSize + 1

\* get_pool(pool_size): constructs the pool once.
GetPool(n, mask) ==
    /\ pool_made = FALSE
    /\ pool_made' = TRUE
    /\ pool_size' = n
    /\ containers' = InitPool(mask)
    /\ in_use' = {}
    /\ UNCHANGED <<poolHist, threadVars, workerVars, workerHist>>
    /\ UNCHANGED libVars

\* for c in self.containers: if c.id not in self.in_use  (from index i on)
RECURSIVE FirstFreeFrom(_, _, _)
FirstFreeFrom(cs, inuse, i) ==
    IF i > Len(cs) THEN NoneId
    ELSE IF cs[i] \notin inuse THEN cs[i]
    ELSE FirstFreeFrom(cs, inuse, i + 1)

FirstFree(cs, inuse) == FirstFreeFrom(cs, inuse, 1)

\* self.in_use.add(cid)
MarkInUseAndNext(inuse, cid) == inuse \cup {cid, cid + 1}

MarkInUse(inuse, cid) == inuse \cup {cid}

\* acquire(timeout) run by a single caller: the while loop, one poll interval
\* (time.sleep(0.1)) per pass that finds nothing free.
RECURSIVE AcquireLoop(_, _, _, _)
AcquireLoop(cs, inuse, elapsed, timeout) ==
    IF elapsed < timeout
    THEN LET c == FirstFree(cs, inuse) IN
         IF c # NoneId
         THEN [result |-> c, in_use |-> MarkInUse(inuse, c),
               raised |-> FALSE, waited |-> elapsed]
         ELSE AcquireLoop(cs, inuse, elapsed + 1, timeout)
    ELSE [result |-> NoneId, in_use |-> inuse,
          raised |-> TRUE, waited |-> elapsed]

Acquire(timeout) ==
    /\ pool_made
    /\ LET r == AcquireLoop(containers, in_use, 0, timeout) IN
       /\ in_use' = r.in_use
       /\ lastAcquire' = [called |-> TRUE, timeout |-> timeout,
                          result |-> r.result, raised |-> r.raised,
                          waited |-> r.waited, before |-> in_use,
                          after |-> r.in_use, heldBefore |-> held,
                          relBefore |-> released]
       /\ held' = IF r.raised THEN held ELSE held \cup {r.result}
    /\ UNCHANGED <<pool_made, pool_size, containers, released, lastRelease,
                   lastCleanup, threadVars, workerVars, workerHist>>
    /\ UNCHANGED libVars

\* self.in_use.discard(container.id): the set it leaves, and whether it raised
DiscardClear(inuse, cid) == [in_use |-> {}, raised |-> FALSE]

Discard(inuse, cid) == [in_use |-> inuse \ {cid}, raised |-> FALSE]

Release(h) ==
    /\ pool_made
    /\ in_use' = Discard(in_use, h).in_use
    /\ released' = TRUE
    /\ held' = held \ {h}
    /\ lastRelease' = [handle |-> h, before |-> in_use,
                       after |-> Discard(in_use, h).in_use,
                       raised |-> Discard(in_use, h).raised]
    /\ UNCHANGED <<pool_made, pool_size, containers, lastAcquire, lastCleanup,
                   threadVars, workerVars, workerHist>>
    /\ UNCHANGED libVars

\* cleanup(): what stop() and remove() do on one member
Teardowns == {"ok", "stop_fails", "remove_fails"}

\* except: pass  -- whether a failure of one member's teardown leaves the loop
PropagatesFailure(failed) == failed

Propagates(failed) == FALSE

\* try: c.stop(); c.remove()  -- remove is reached only when stop returned
TeardownMember(c, o) ==
    [id |-> c, stop |-> TRUE, stop_ok |-> o # "stop_fails",
     remove |-> o # "stop_fails", remove_ok |-> o = "ok"]

\* for c in self.containers: try: ... except: pass
RECURSIVE CleanupFrom(_, _)
CleanupFrom(cs, outs) ==
    IF cs = <<>> THEN [tried |-> <<>>, raised |-> FALSE]
    ELSE IF Propagates(Head(outs) # "ok")
    THEN [tried |-> <<TeardownMember(Head(cs), Head(outs))>>, raised |-> TRUE]
    ELSE [tried |-> <<TeardownMember(Head(cs), Head(outs))>>
                    \o CleanupFrom(Tail(cs), Tail(outs)).tried,
          raised |-> CleanupFrom(Tail(cs), Tail(outs)).raised]

\* cleanup(): self.containers and self.in_use stay as they are
Cleanup(outs) ==
    /\ pool_made
    /\ Len(outs) = Len(containers)
    /\ lastCleanup' = [called |-> TRUE,
                       tried |-> CleanupFrom(containers, outs).tried,
                       raised |-> CleanupFrom(containers, outs).raised]
    /\ UNCHANGED <<poolVars, lastAcquire, released, held, lastRelease,
                   threadVars, workerVars, workerHist>>
    /\ UNCHANGED libVars

Handles == 1..ForeignId

Masks(n) == [1..n -> BOOLEAN]

\* ------------------------------------------------ acquire, statement by statement
\* Threads of one process share the pool object; the interpreter may switch
\* threads between any two statements of acquire.

\* start = time.time()
TAcquire(t, timeout) ==
    /\ pool_made
    /\ tpc[t] = "idle"
    /\ tpc' = [tpc EXCEPT ![t] = "test"]
    /\ ttimeout' = [ttimeout EXCEPT ![t] = timeout]
    /\ telapsed' = [telapsed EXCEPT ![t] = 0]
    /\ UNCHANGED <<tidx, tcid, theld, poolVars, poolHist, workerVars, workerHist>>
    /\ UNCHANGED libVars

\* while time.time() - start < timeout: ... else raise RuntimeError
TTest(t) ==
    /\ tpc[t] = "test"
    /\ IF telapsed[t] < ttimeout[t]
       THEN /\ tpc' = [tpc EXCEPT ![t] = "scan"]
            /\ tidx' = [tidx EXCEPT ![t] = 1]
       ELSE /\ tpc' = [tpc EXCEPT ![t] = "idle"]
            /\ UNCHANGED tidx
    /\ UNCHANGED <<ttimeout, telapsed, tcid, theld, poolVars, poolHist,
                   workerVars, workerHist>>
    /\ UNCHANGED libVars

\* for c in self.containers: cid = c.id; if cid not in self.in_use
TScan(t) ==
    /\ tpc[t] = "scan"
    /\ IF tidx[t] > Len(containers)
       THEN /\ tpc' = [tpc EXCEPT ![t] = "sleep"]
            /\ UNCHANGED <<tidx, tcid>>
       ELSE IF containers[tidx[t]] \notin in_use
            THEN /\ tpc' = [tpc EXCEPT ![t] = "add"]
                 /\ tcid' = [tcid EXCEPT ![t] = containers[tidx[t]]]
                 /\ UNCHANGED tidx
            ELSE /\ tidx' = [tidx EXCEPT ![t] = tidx[t] + 1]
                 /\ UNCHANGED <<tpc, tcid>>
    /\ UNCHANGED <<ttimeout, telapsed, theld, poolVars, poolHist,
                   workerVars, workerHist>>
    /\ UNCHANGED libVars

\* self.in_use.add(cid); return c
TAdd(t) ==
    /\ tpc[t] = "add"
    /\ in_use' = MarkInUse(in_use, tcid[t])
    /\ theld' = [theld EXCEPT ![t] = theld[t] \cup {tcid[t]}]
    /\ tpc' = [tpc EXCEPT ![t] = "idle"]
    /\ UNCHANGED <<ttimeout, telapsed, tidx, tcid, pool_made, pool_size,
                   containers, poolHist, workerVars, workerHist>>
    /\ UNCHANGED libVars

\* time.sleep(0.1)
TSleep(t) ==
    /\ tpc[t] = "sleep"
    /\ telapsed' = [telapsed EXCEPT ![t] = telapsed[t] + 1]
    /\ tpc' = [tpc EXCEPT ![t] = "test"]
    /\ UNCHANGED <<ttimeout, tidx, tcid, theld, poolVars, poolHist,
                   workerVars, workerHist>>
    /\ UNCHANGED libVars

\* release(container) by the thread that was handed the container
TRelease(t, h) ==
    /\ tpc[t] = "idle"
    /\ h \in theld[t]
    /\ in_use' = Discard(in_use, h).in_use
    /\ theld' = [theld EXCEPT ![t] = theld[t] \ {h}]
    /\ UNCHANGED <<tpc, ttimeout, telapsed, tidx, tcid, pool_made, pool_size,
                   containers, poolHist, workerVars, workerHist>>
    /\ UNCHANGED libVars

ThreadsNext ==
    \/ \E n \in 1..MaxPoolSize : \E mask \in Masks(n) : GetPool(n, mask)
    \/ \E t \in Threads : \E timeout \in 0..MaxTimeout : TAcquire(t, timeout)
    \/ \E t \in Threads : TTest(t)
    \/ \E t \in Threads : TScan(t)
    \/ \E t \in Threads : TAdd(t)
    \/ \E t \in Threads : TSleep(t)
    \/ \E t \in Threads : \E h \in Handles : TRelease(t, h)

\* ------------------------------------------------------------ container runtime
\* The docker daemon as the code uses it: containers by id with a unique name
\* and a status, images by id, ids handed out fresh.  D is a value of the
\* variable docker.  Every runtime call may fail; ok says whether it did not.

Persistent == "sandbox_persistent"

default_packages ==
    {"requests", "numpy", "pandas", "matplotlib", "scipy",
     "beautifulsoup4", "fastapi", "pillow", "opencv-python", "regex"}

NoImage == "None"                        \* custom_image=None
NoPackages == [given |-> FALSE, names |-> {}]       \* packages=None
DefaultPk == [given |-> TRUE, names |-> default_packages]

NoContainer == [id |-> NoneId, name |-> ""]
NoSandbox == [container |-> NoContainer, temp_image |-> NoneId]

NoCall == [fn |-> "", arg |-> <<>>, raised |-> FALSE, result |-> ""]

NoClose ==
    [called |-> FALSE, i |-> 0, sb |-> NoSandbox, ops |-> <<>>, out |-> <<>>,
     raised |-> FALSE, nth |-> 0]

Exists(D, id) == id \in DOMAIN D.cs

PersistentIds(D) == {i \in DOMAIN D.cs : D.cs[i].name = Persistent}

WithContainer(D, id, rec) ==
    [D EXCEPT !.cs = [i \in DOMAIN D.cs \cup {id} |->
                         IF i = id THEN rec ELSE D.cs[i]]]

Without(D, id) == [D EXCEPT !.cs = [i \in DOMAIN D.cs \ {id} |-> D.cs[i]]]

\* A stop or remove call made by this layer (by: "close" or "setup"); those
\* made on the persistent container are kept in D.issued.
Issue(D, op, by, name, ok) ==
    IF name = Persistent
    THEN [D EXCEPT !.issued = @ \cup {[op |-> op, by |-> by, ok |-> ok]}]
    ELSE D

\* f"python_sandbox_{uuid.uuid4().hex[:8]}"
UniqueName(n) == "python_sandbox_" \o ToString(n)

\* ------------------------------------------------------ AICodeSandbox.close
ErrStopRemove == "Error stopping/removing container"
ErrAttempt    == "Attempt to remove image failed"
ErrGiveUp     == "Failed to remove temporary image after multiple attempts"

ImageRemoveAttempts == 3

\* a call close() makes on the runtime: what, on which id, whether it
\* succeeded; stop(timeout=10), remove(force=True), images.remove(force=True)
Op(op, id, ok) == [op |-> op, id |-> id, ok |-> ok, force |-> op # "stop"]

\* if self.container.name != "sandbox_persistent"
CloseGuardAny(name) == TRUE

CloseGuard(name) == name # Persistent

\* if self.container: ... stop(timeout=10); remove(force=True) in one try
CloseContainer(D, sb) ==
    LET h == sb.container IN
    IF h = NoContainer \/ ~CloseGuard(h.name)
    THEN {[D |-> D, out |-> <<>>, ops |-> <<>>]}
    ELSE IF ~Exists(D, h.id)
    THEN {[D |-> Issue(D, "stop", "close", h.name, FALSE),
           out |-> <<ErrStopRemove>>, ops |-> <<Op("stop", h.id, FALSE)>>]}
    ELSE LET stopped == WithContainer(Issue(D, "stop", "close", h.name, TRUE),
                           h.id, [D.cs[h.id] EXCEPT !.status = "exited"])
         IN { [D |-> Issue(D, "stop", "close", h.name, FALSE),
               out |-> <<ErrStopRemove>>,
               ops |-> <<Op("stop", h.id, FALSE)>>],
              [D |-> Issue(stopped, "remove", "close", h.name, FALSE),
               out |-> <<ErrStopRemove>>,
               ops |-> <<Op("stop", h.id, TRUE), Op("remove", h.id, FALSE)>>],
              [D |-> Without(Issue(stopped, "remove", "close", h.name, TRUE),
                             h.id),
               out |-> <<>>,
               ops |-> <<Op("stop", h.id, TRUE), Op("remove", h.id, TRUE)>>] }

Repeat(x, n) == [i \in 1..n |-> x]

\* if self.temp_image: for _ in range(3): images.remove(force=True) ... else
\* a = the attempt that succeeds, 0 when none does
\* for _ in range(3): try: images.remove(...); break   -- the attempts made
\* when attempt a is the one that succeeds
AttemptsNoBreak(a) == ImageRemoveAttempts

Attempts(a) == IF a = 0 THEN ImageRemoveAttempts ELSE a

CloseImage(D, sb) ==
    IF sb.temp_image = NoneId
    THEN {[D |-> D, out |-> <<>>, ops |-> <<>>]}
    ELSE { [D |-> IF a = 0 THEN D
                  ELSE [D EXCEPT !.imgs = @ \ {sb.temp_image}],
            out |-> Repeat(ErrAttempt, Attempts(a) - (IF a = 0 THEN 0 ELSE 1))
                    \o (IF a = 0 THEN <<ErrGiveUp>> ELSE <<>>),
            ops |-> [k \in 1..Attempts(a) |->
                       Op("image_remove", sb.temp_image, k = a)]]
           : a \in 0..ImageRemoveAttempts }

\* close(): the runtime state it leaves and what it prints (print() without
\* file= writes to sys.stdout); the object ends with container = temp_image = None
\* self.container = None (line 270); finally: self.temp_image = None (286)
ClosedIfClean(sb, ops) ==
    IF \E k \in DOMAIN ops : ~ops[k].ok THEN sb ELSE NoSandbox

Closed(sb, ops) == NoSandbox

Close(D, sb) ==
    UNION { { [D |-> i.D, out |-> c.out \o i.out, ops |-> c.ops \o i.ops,
               raised |-> FALSE, sb |-> Closed(sb, c.ops \o i.ops)]
              : i \in CloseImage(c.D, sb) }
            : c \in CloseContainer(D, sb) }

\* --------------------------------------------- AICodeSandbox._setup_sandbox
\* is_default_setup = custom_image is None and packages is not None
\*                    and set(packages) == set(default_packages)
IsDefaultSetup(custom_image, pk) ==
    custom_image = NoImage /\ pk.given /\ pk.names = default_packages

\* found: what the default branch met in the persistent container, "none"
\* when the branch was not taken or there was no such container
SetupResult(D, sb, raised, reused, created, built) ==
    [D |-> D, sb |-> sb, raised |-> raised, reused |-> reused,
     created |-> created, built |-> built, found |-> "none"]

\* self.container = self.client.containers.run(image_name, name=...)
\* the daemon refuses a name that is in use
RunContainer(D, sb, custom_image, pk, built) ==
    LET name == IF IsDefaultSetup(custom_image, pk)
                THEN Persistent ELSE UniqueName(D.next)
        taken == \E i \in DOMAIN D.cs : D.cs[i].name = name
        ran == WithContainer([D EXCEPT !.next = @ + 1], D.next,
                             [name |-> name, status |-> "running"])
    IN  {SetupResult(D, sb, TRUE, FALSE, FALSE, built)}
        \cup IF taken THEN {}
             ELSE {SetupResult(ran,
                      [sb EXCEPT !.container = [id |-> D.next, name |-> name]],
                      FALSE, FALSE, TRUE, built)}

\* image_name = custom_image or "python:3.9-slim"; if packages: build
CreateSandbox(D, sb, custom_image, pk) ==
    IF pk.names # {}
    THEN {SetupResult(D, sb, TRUE, FALSE, FALSE, FALSE)}
         \cup RunContainer([D EXCEPT !.imgs = @ \cup {D.next}, !.next = @ + 1],
                           [sb EXCEPT !.temp_image = D.next],
                           custom_image, pk, TRUE)
    ELSE RunContainer(D, sb, custom_image, pk, FALSE)

\* except Exception: old = containers.get("sandbox_persistent");
\*                   old.remove(force=True)   (failures swallowed)
RemoveBroken(D, p) ==
    { Issue(D, "remove", "setup", Persistent, FALSE),
      Without(Issue(D, "remove", "setup", Persistent, TRUE), p) }

\* lines 55-68: "running" (status is running after reload), "started"
\* (start() and one of the 10 polls saw running), "never_running" (the raise
\* at line 68), "error" (get, reload or start raised)
Found(D, p, o) ==
    IF ~o.get \/ ~o.reload THEN "error"
    ELSE IF D.cs[p].status = "running" THEN "running"
    ELSE IF ~o.start THEN "error"
    ELSE IF o.poll THEN "started"
    ELSE "never_running"

\* The default branch with the persistent container p present:
\* get, reload, start, up to 10 polls; o says which runtime calls succeed.
TryPersistent(D, p, o) ==
    LET h   == [id |-> p, name |-> Persistent]
        sb  == IF o.get THEN [NoSandbox EXCEPT !.container = h] ELSE NoSandbox
        up  == D.cs[p].status = "running"
        D1  == IF o.get /\ o.reload /\ ~up /\ o.start /\ o.poll
               THEN WithContainer(D, p, [D.cs[p] EXCEPT !.status = "running"])
               ELSE D
    IN  { [r EXCEPT !.found = Found(D, p, o)] :
          r \in IF o.get /\ o.reload /\ (up \/ (o.start /\ o.poll))
                THEN {SetupResult(D1, sb, FALSE, TRUE, FALSE, FALSE)}
                ELSE UNION { CreateSandbox(D2, sb, NoImage, DefaultPk)
                             : D2 \in RemoveBroken(D1, p) } }

Oracles == [get : BOOLEAN, reload : BOOLEAN, start : BOOLEAN, poll : BOOLEAN]

\* _setup_sandbox(custom_image, packages, ...): every way it can end
SetupSandbox(D, custom_image, pk) ==
    IF custom_image = NoImage /\ ~pk.given
    THEN IF PersistentIds(D) = {}
         THEN CreateSandbox(D, NoSandbox, NoImage, DefaultPk)
         ELSE LET p == CHOOSE i \in PersistentIds(D) : TRUE
              IN  UNION { TryPersistent(D, p, o) : o \in Oracles }
    ELSE CreateSandbox(D, NoSandbox, custom_image, pk)

\* -------------------------------------------------- AICodeSandbox.run_code
\* The bytes of an output stream: the letters X and E, and 0xFF, which occurs
\* in no UTF-8 text.
Bytes == {88, 69, 255}

Streams == UNION { [1..n -> Bytes] : n \in 0..MaxStream }

Utf8Valid(bs) == \A i \in DOMAIN bs : bs[i] < 128

Char(b) == CASE b = 88 -> "X" [] b = 69 -> "E" [] OTHER -> "?"

RECURSIVE Text(_)
Text(bs) == IF bs = <<>> THEN "" ELSE Char(Head(bs)) \o Text(Tail(bs))

\* stdout.decode('utf-8') if stdout else ''   (demux gives None for no output)
Decode(bs) ==
    IF bs = <<>> THEN [raised |-> FALSE, text |-> ""]
    ELSE IF Utf8Valid(bs) THEN [raised |-> FALSE, text |-> Text(bs)]
    ELSE [raised |-> TRUE, text |-> ""]          \* UnicodeDecodeError

\* ---- lines 181-194: the command line run_code builds for a code string
\* Code strings are sequences of characters.
Alphabet == {"'", "\"", " ", "\n", "a", ";"}

Codes == UNION { [1..n -> Alphabet] : n \in 0..MaxCode }

RECURSIVE SplitLines(_)
SplitLines(cs) ==
    IF \A i \in DOMAIN cs : cs[i] # "\n" THEN <<cs>>
    ELSE LET i == CHOOSE k \in DOMAIN cs :
                    cs[k] = "\n" /\ \A j \in 1..(k - 1) : cs[j] # "\n"
         IN  <<SubSeq(cs, 1, i - 1)>> \o SplitLines(SubSeq(cs, i + 1, Len(cs)))

RECURSIVE JoinLines(_)
JoinLines(ls) ==
    IF Len(ls) = 1 THEN ls[1]
    ELSE ls[1] \o <<"\n">> \o JoinLines(Tail(ls))

\* leading blanks of a line
RECURSIVE Indent(_)
Indent(l) == IF l # <<>> /\ Head(l) = " " THEN 1 + Indent(Tail(l)) ELSE 0

\* textwrap.dedent(code): lines of blanks only are emptied, then the indent
\* common to the other lines is taken off each of them
Dedent(cs) ==
    LET ls      == SplitLines(cs)
        cleared == [k \in DOMAIN ls |->
                      IF Indent(ls[k]) = Len(ls[k]) THEN <<>> ELSE ls[k]]
        full    == {k \in DOMAIN cleared : cleared[k] # <<>>}
        margin  == IF full = {} THEN 0
                   ELSE CHOOSE m \in {Indent(cleared[k]) : k \in full} :
                          \A k \in full : m <= Indent(cleared[k])
    IN  JoinLines([k \in DOMAIN cleared |->
                     IF k \in full
                     THEN SubSeq(cleared[k], margin + 1, Len(cleared[k]))
                     ELSE cleared[k]])

\* escaped_code = code.replace("'", "'\"'\"'")
RECURSIVE Escape(_)
EscapeNone(cs) == cs

Escape(cs) ==
    IF cs = <<>> THEN <<>>
    ELSE (IF Head(cs) = "'" THEN <<"'", "\"", "'", "\"", "'">> ELSE <<Head(cs)>>)
         \o Escape(Tail(cs))

EnvWord == <<"e", "n", "v">>
PythonWord == <<"p", "y", "t", "h", "o", "n">>
DashC == <<"-", "c">>

\* exec_command = f"env {env_str} python -c '{escaped_code}'", env_str = ""
ExecCommand(code) ==
    EnvWord \o <<" ", " ">> \o PythonWord \o <<" ">> \o DashC \o <<" ", "'">>
    \o Escape(code) \o <<"'">>

\* sh -c exec_command: the shell's splitting of a command line into commands
\* and words.  Outside quotes a blank ends a word, ; and newline end a
\* command, ' and " open a quotation; inside '...' every character up to the
\* next ' stands for itself, inside "..." every character of Alphabet up to
\* the next " does.  An unclosed quotation is a syntax error.
RECURSIVE Sh(_, _, _, _, _, _)
Sh(cs, mode, word, inword, words, cmds) ==
    LET ws == IF inword THEN Append(words, word) ELSE words
        cm == IF ws = <<>> THEN cmds ELSE Append(cmds, ws)
    IN
    IF cs = <<>>
    THEN IF mode = "plain" THEN [ok |-> TRUE, cmds |-> cm]
         ELSE [ok |-> FALSE, cmds |-> <<>>]
    ELSE LET c == Head(cs)
             t == Tail(cs)
         IN  CASE mode = "single" ->
                    IF c = "'" THEN Sh(t, "plain", word, TRUE, words, cmds)
                    ELSE Sh(t, "single", Append(word, c), TRUE, words, cmds)
               [] mode = "double" ->
                    IF c = "\"" THEN Sh(t, "plain", word, TRUE, words, cmds)
                    ELSE Sh(t, "double", Append(word, c), TRUE, words, cmds)
               [] OTHER ->
                    CASE c = "'"  -> Sh(t, "single", word, TRUE, words, cmds)
                      [] c = "\"" -> Sh(t, "double", word, TRUE, words, cmds)
                      [] c = " "  -> Sh(t, "plain", <<>>, FALSE, ws, cmds)
                      [] c \in {";", "\n"} ->
                                     Sh(t, "plain", <<>>, FALSE, <<>>, cm)
                      [] OTHER    -> Sh(t, "plain", Append(word, c), TRUE,
                                        words, cmds)

ShellSplit(cs) == Sh(cs, "plain", <<>>, FALSE, <<>>, <<>>)

\* What exec_run can return: output, silence, a failure with diagnostics,
\* output that is no UTF-8.
Runs ==
    { [exit_code |-> 0, stdout |-> <<88>>,  stderr |-> <<>>],
      [exit_code |-> 0, stdout |-> <<>>,    stderr |-> <<>>],
      [exit_code |-> 1, stdout |-> <<>>,    stderr |-> <<69>>],
      [exit_code |-> 0, stdout |-> <<255>>, stderr |-> <<>>] }

\* lines 219-254: the returned text
RunCodeResult(exit_code, stdout_text, stderr_text) ==
    IF exit_code # 0
    THEN "Error (exit code " \o ToString(exit_code) \o "): " \o stderr_text
    ELSE IF stdout_text # "" THEN stdout_text
    ELSE IF stderr_text # "" THEN "Error: " \o stderr_text
    ELSE "No output"

\* lines 208-254: from what exec_run returned to what run_code returns
RunCodeReturn(exit_code, stdout_b, stderr_b) ==
    LET o == Decode(stdout_b)
        e == Decode(stderr_b)
    IN  IF o.raised \/ e.raised
        THEN [raised |-> TRUE, result |-> ""]
        ELSE [raised |-> FALSE,
              result |-> RunCodeResult(exit_code, o.text, e.text)]

\* run_code(code): exec_run raises (container gone or not running, daemon
\* error) or the code is run and ends with an exit code and the two streams
RunCode(D, sb) ==
    {[raised |-> TRUE, result |-> "", dispatched |-> FALSE, exit_code |-> 0]}
    \cup IF Exists(D, sb.container.id)
            /\ D.cs[sb.container.id].status = "running"
         THEN { [raised |-> RunCodeReturn(r.exit_code, r.stdout, r.stderr).raised,
                 result |-> RunCodeReturn(r.exit_code, r.stdout, r.stderr).result,
                 dispatched |-> TRUE, exit_code |-> r.exit_code]
                : r \in Runs }
         ELSE {}

\* ------------------------------------------------------- persistent_worker
\* An input line: blank, not JSON, JSON that is no object, or a JSON object.
\* Text is a sequence of characters.
Whitespace == {" "}

RECURSIVE LStrip(_)
LStrip(text) ==
    IF text # <<>> /\ Head(text) \in Whitespace THEN LStrip(Tail(text)) ELSE text

RECURSIVE RStrip(_)
RStrip(text) ==
    IF text # <<>> /\ text[Len(text)] \in Whitespace
    THEN RStrip(SubSeq(text, 1, Len(text) - 1)) ELSE text

Strip(text) == RStrip(LStrip(text))

CodeValues ==
    { [type |-> "none", text |-> <<>>],          \* key absent or null
      [type |-> "int",  text |-> <<>>],          \* a JSON number
      [type |-> "str",  text |-> <<>>],
      [type |-> "str",  text |-> <<" ">>],
      [type |-> "str",  text |-> <<"p">>] }

\* not isinstance(code, str) or not code.strip()
CodeInvalid(code) == code.type # "str" \/ Strip(code.text) = <<>>

Ids == {"a"}

ObjectLines ==
    [kind : {"object"}, hasId : BOOLEAN, id : Ids, code : CodeValues,
     language : {"absent", "bash"},
     packages : {"absent", "custom", "default"}]

PlainLine(kind) ==
    [kind |-> kind, hasId |-> FALSE, id |-> "a",
     code |-> [type |-> "none", text |-> <<>>],
     language |-> "absent", packages |-> "absent"]

\* (language and packages vary on the requests that get past validation,
\*  packages on those that reach the sandbox)
Lines == {PlainLine("blank"), PlainLine("notjson"), PlainLine("nonobject")}
         \cup {l \in ObjectLines :
                 /\ CodeInvalid(l.code) => l.language = "absent"
                 /\ l.language = "absent" \/ l.packages = "absent"
                 /\ CodeInvalid(l.code) => l.packages = "absent"}

\* line = line.strip(); if not line: continue
SkipLineNever(l) == FALSE

SkipLine(l) == l.kind = "blank"

\* json.loads(line) returns (does not raise JSONDecodeError)
Parses(l) == l.kind \in {"nonobject", "object"}

\* request_data.get('id', 'unknown')
RequestId(l) == IF l.hasId THEN l.id ELSE "unknown"

\* request_data.get('packages') or None
PackagesOf(l) ==
    CASE l.packages = "absent"  -> NoPackages
      [] l.packages = "custom"  -> [given |-> TRUE, names |-> {"flask"}]
      [] l.packages = "default" -> DefaultPk

\* What the history keeps of a line.
Seen(l) ==
    [kind |-> l.kind, hasId |-> l.hasId, id |-> l.id,
     valid |-> (l.kind = "object" /\ ~CodeInvalid(l.code)),
     bash |-> (l.language = "bash")]

BadLine(l) ==
    l.kind \in {"notjson", "nonobject"} \/ (l.kind = "object" /\ ~l.valid)

BadKind(l) == IF l.kind = "object" THEN "badcode" ELSE l.kind

\* execute_bash(code): (stdout, stderr, returncode)
ExitCodes == {0, 1}
Outputs == {"", "X"}
Diagnostics == {"", "E"}

TimeoutExit == 124

NoExec ==
    [dispatched |-> FALSE, bash |-> FALSE, exited |-> FALSE, exit_code |-> 0,
     returncode |-> 0, left |-> {}]

\* What is left of the command when subprocess.run gives up on it: run kills
\* the shell it started and waits for that one process; a command the shell
\* started in turn is not signalled.
Leftovers == { {}, {"child"} }

\* how: the command ended by itself ("exit"), was cut off after 30 s
\* ("timeout"), or subprocess.run raised something else ("error")
ExecuteBash ==
    { [stdout |-> o, stderr |-> e, returncode |-> rc, how |-> "exit",
       left |-> {}]
      : o \in Outputs, e \in Diagnostics, rc \in ExitCodes }
    \cup { [stdout |-> o, stderr |-> "Bash execution timed out (30s)",
            returncode |-> TimeoutExit, how |-> "timeout", left |-> lf]
           : o \in Outputs, lf \in Leftovers }
    \cup { [stdout |-> "", stderr |-> "E", returncode |-> 1, how |-> "error",
            left |-> {}] }

\* how the code of a bash request was run
BashExec(r) ==
    [dispatched |-> r.how # "error", bash |-> TRUE, exited |-> r.how = "exit",
     exit_code |-> IF r.how = "exit" THEN r.returncode ELSE 0,
     returncode |-> r.returncode, left |-> r.left]

\* how the code of a python request was run
PythonExec(r) ==
    [dispatched |-> r.dispatched, bash |-> FALSE, exited |-> r.dispatched,
     exit_code |-> r.exit_code, returncode |-> 0, left |-> {}]

BashDoc(rid, r) ==
    IF r.returncode # 0
    THEN [id |-> rid, success |-> FALSE,
          error |-> IF r.stderr # "" THEN r.stderr
                    ELSE "Bash exited with code " \o ToString(r.returncode),
          stdout |-> r.stdout, stderr |-> r.stderr,
          timings |-> {"code_exec_ms", "total_ms"}]
    ELSE [id |-> rid, success |-> TRUE, result |-> r.stdout,
          timings |-> {"code_exec_ms", "total_ms"}]

NoSetup ==
    [called |-> FALSE, default |-> FALSE, afterClose |-> NoneId,
     reused |-> FALSE, attached |-> NoneId, created |-> FALSE,
     built |-> FALSE, raised |-> FALSE, found |-> "none", name |-> ""]

SetupInfo(s, pk, afterClose) ==
    [called |-> TRUE, default |-> ~pk.given, afterClose |-> afterClose,
     reused |-> s.reused, attached |-> s.sb.container.id,
     created |-> s.created, built |-> s.built, raised |-> s.raised,
     found |-> s.found, name |-> s.sb.container.name]

\* One way process_request can end: the runtime it leaves, the document it
\* returns (or escaped: an exception left it), what was printed to stdout
\* meanwhile, the Sandbox objects it leaves unreferenced.
Outcome(D, imp, escaped, doc, out, err, gar, setup, cpid, exec) ==
    [D |-> D, imported |-> imp, escaped |-> escaped, doc |-> doc, out |-> out,
     err |-> err, garbage |-> gar, setup |-> setup, closedPid |-> cpid,
     exec |-> exec]

PersistentOf(sb) ==
    IF sb.container.name = Persistent THEN sb.container.id ELSE NoneId

\* finally: if sandbox: sandbox.close()
\* (sandbox is still None when AICodeSandbox(...) raised)
FinallyCloses(raised) == ~raised

\* lines 91-129: sandbox = AICodeSandbox(packages=packages); run_code; close
ProcessPython(D, l, setup0, cpid0) ==
    LET rid == RequestId(l)
        pk  == PackagesOf(l)
    IN UNION {
         IF ~FinallyCloses(s.raised)
         THEN { Outcome(s.D, TRUE, FALSE,
                   [id |-> rid, success |-> FALSE, error |-> "setup",
                    traceback |-> "tb", timings |-> {"import_ms", "total_ms"}],
                   <<>>, {"WORKER"},
                   {[sb |-> s.sb, closed |-> FALSE]},
                   SetupInfo(s, pk, cpid0), NoneId, NoExec) }
         ELSE UNION {
                { Outcome(c.D, TRUE, FALSE,
                     IF r.raised
                     THEN [id |-> rid, success |-> FALSE, error |-> "exec",
                           traceback |-> "tb",
                           timings |-> {"import_ms", "sandbox_init_ms",
                                        "total_ms"}]
                     ELSE [id |-> rid, success |-> TRUE, result |-> r.result,
                           timings |-> {"import_ms", "sandbox_init_ms",
                                        "code_exec_ms", "total_ms"}],
                     c.out, {"WORKER", "SANDBOX"},
                     {[sb |-> c.sb, closed |-> TRUE]},
                     SetupInfo(s, pk, cpid0), PersistentOf(s.sb),
                     PythonExec(r))
                  : c \in Close(s.D, s.sb) }
                : r \in RunCode(s.D, s.sb) }
         : s \in SetupSandbox(D, NoImage, pk) }

\* process_request(request_data) for a parsed l
ProcessRequest(D, imp, l, setup0, cpid0) ==
    IF l.kind # "object"
    THEN \* request_data.get raises; the handler at 131 reads request_id unbound
         {Outcome(D, imp, TRUE, [success |-> FALSE], <<>>, {}, {}, setup0, cpid0, NoExec)}
    ELSE IF CodeInvalid(l.code)
    THEN {Outcome(D, imp, FALSE,
             [id |-> RequestId(l), success |-> FALSE,
              error |-> "missing or empty code", timings |-> {}],
             <<>>, {}, {}, setup0, cpid0, NoExec)}
    ELSE IF l.language = "bash"
    THEN {Outcome(D, imp, FALSE, BashDoc(RequestId(l), r), <<>>,
                  {"WORKER"}, {}, setup0, cpid0, BashExec(r))
          : r \in ExecuteBash}
    ELSE (IF imp THEN {}
          ELSE {Outcome(D, FALSE, FALSE,
                   [id |-> RequestId(l), success |-> FALSE,
                    error |-> "failed to import", timings |-> {}],
                   <<>>, {}, {}, setup0, cpid0, NoExec)})
         \cup ProcessPython(D, l, setup0, cpid0)

\* main(): what the loop does with an exception that leaves the try body
LoopBoundaryNarrow(exc) ==
    CASE exc = "JSONDecodeError"   -> "reply"
      [] exc = "Exception"         -> "crash"
      [] exc = "KeyboardInterrupt" -> "exit"

LoopBoundary(exc) ==
    CASE exc = "JSONDecodeError"   -> "reply"
      [] exc = "Exception"         -> "reply"
      [] exc = "KeyboardInterrupt" -> "exit"

JsonLine(doc) == [json |-> TRUE, doc |-> doc, text |-> ""]
TextLine(text) == [json |-> FALSE, doc |-> [success |-> FALSE], text |-> text]

TextLines(out) == [i \in 1..Len(out) |-> TextLine(out[i])]

\* One pass of "for line in sys.stdin".
ReadLine(l) ==
    /\ pc = "await"
    /\ nlines < MaxLines
    /\ line' = Seen(l)
    /\ nlines' = nlines + 1
    /\ nonblank' = IF l.kind = "blank" THEN nonblank ELSE nonblank + 1
    /\ prevBad' = IF nlines > 0 /\ BadLine(line) THEN BadKind(line) ELSE ""
    /\ IF SkipLine(l)
       THEN /\ stdout' = <<>>
            /\ stderr' = {}
            /\ lastExec' = NoExec
            /\ UNCHANGED <<docker, pc, imported, garbage, answered,
                           lastSetup, closedPid>>
       ELSE IF ~Parses(l)
       THEN /\ IF LoopBoundary("JSONDecodeError") = "reply"
               THEN /\ stdout' = <<JsonLine([success |-> FALSE,
                                             error |-> "invalid json"])>>
                    /\ answered' = answered + 1
                    /\ pc' = "await"
               ELSE /\ pc' = "crashed"
                    /\ stdout' = <<>>
                    /\ UNCHANGED answered
            /\ stderr' = {}
            /\ lastExec' = NoExec
            /\ UNCHANGED <<docker, imported, garbage, lastSetup, closedPid>>
       ELSE \E r \in ProcessRequest(docker, imported, l, lastSetup, closedPid) :
            /\ docker' = r.D
            /\ imported' = r.imported
            /\ garbage' = garbage \cup r.garbage
            /\ lastSetup' = r.setup
            /\ closedPid' = r.closedPid
            /\ lastExec' = r.exec
            /\ IF ~r.escaped
               THEN /\ stdout' = TextLines(r.out) \o <<JsonLine(r.doc)>>
                    /\ answered' = answered + 1
                    /\ stderr' = r.err \cup {"WORKER_TIMING"}
                    /\ pc' = "await"
               ELSE IF LoopBoundary("Exception") = "reply"
               THEN /\ stdout' = TextLines(r.out)
                          \o <<JsonLine([success |-> FALSE, error |-> "str(e)"])>>
                    /\ answered' = answered + 1
                    /\ stderr' = r.err
                    /\ pc' = "await"
               ELSE /\ stdout' = TextLines(r.out)
                    /\ UNCHANGED answered
                    /\ stderr' = r.err \cup {"Traceback"}
                    /\ pc' = "crashed"
    /\ UNCHANGED <<poolVars, poolHist, threadVars>>
    /\ UNCHANGED libVars

\* sys.stdin is exhausted: the for loop ends and main returns
EndOfInput ==
    /\ pc = "await"
    /\ pc' = "eof"
    /\ UNCHANGED <<docker, imported, stdout, stderr, garbage, workerHist,
                   poolVars, poolHist, threadVars>>
    /\ UNCHANGED libVars

\* except KeyboardInterrupt: print(..., file=sys.stderr); sys.exit(0)
Interrupt ==
    /\ pc = "await"
    /\ pc' = IF LoopBoundary("KeyboardInterrupt") = "exit"
             THEN "interrupted" ELSE "crashed"
    /\ stderr' = stderr \cup {"WORKER"}
    /\ UNCHANGED <<docker, imported, stdout, garbage, workerHist,
                   poolVars, poolHist, threadVars>>
    /\ UNCHANGED libVars

\* __del__: self.close(), whenever the interpreter collects the object
\* (while the process lives: collection at shutdown precedes its end)
Finalize(g) ==
    /\ pc = "await"
    /\ g \in garbage
    /\ garbage' = garbage \ {g}
    /\ \E c \in Close(docker, g.sb) :
         /\ docker' = c.D
         /\ stdout' = stdout \o TextLines(c.out)
    /\ closedPid' = IF PersistentOf(g.sb) # NoneId /\ Exists(docker, PersistentOf(g.sb))
                    THEN PersistentOf(g.sb) ELSE closedPid
    /\ UNCHANGED <<pc, imported, stderr, line, nlines, nonblank, answered,
                   prevBad, lastSetup, lastExec, poolVars, poolHist, threadVars>>
    /\ UNCHANGED libVars

\* Outside this layer: the operator (or the host) stops the persistent container.
OperatorStop ==
    /\ pc = "await"
    /\ \E p \in PersistentIds(docker) :
         /\ docker.cs[p].status = "running"
         /\ docker' = WithContainer(docker, p,
                         [docker.cs[p] EXCEPT !.status = "exited"])
    /\ UNCHANGED <<pc, imported, stdout, stderr, garbage, workerHist,
                   poolVars, poolHist, threadVars>>
    /\ UNCHANGED libVars

Next ==
    \/ \E l \in Lines : ReadLine(l)
    \/ EndOfInput
    \/ Interrupt
    \/ \E g \in garbage : Finalize(g)
    \/ OperatorStop

Init ==
    /\ pool_made = FALSE
    /\ pool_size = 0
    /\ containers = <<>>
    /\ in_use = {}
    /\ lastAcquire = [called |-> FALSE, timeout |-> 0, result |-> NoneId,
                      raised |-> FALSE, waited |-> 0, before |-> {},
                      after |-> {}, heldBefore |-> {}, relBefore |-> FALSE]
    /\ released = FALSE
    /\ held = {}
    /\ lastRelease = [handle |-> NoneId, before |-> {}, after |-> {},
                      raised |-> FALSE]
    /\ tpc = [t \in Threads |-> "idle"]
    /\ ttimeout = [t \in Threads |-> 0]
    /\ telapsed = [t \in Threads |-> 0]
    /\ tidx = [t \in Threads |-> 0]
    /\ tcid = [t \in Threads |-> NoneId]
    /\ theld = [t \in Threads |-> {}]
    /\ docker = [cs |-> <<>>, imgs |-> {}, next |-> 1, issued |-> {}]
    /\ pc = "await"
    /\ imported = FALSE
    /\ stdout = <<>>
    /\ stderr = {"WORKER"}
    /\ garbage = {}
    /\ line = Seen(PlainLine("blank"))
    /\ nlines = 0
    /\ nonblank = 0
    /\ answered = 0
    /\ prevBad = ""
    /\ lastSetup = NoSetup
    /\ closedPid = NoneId
    /\ lastExec = NoExec
    /\ lastCleanup = [called |-> FALSE, tried |-> <<>>, raised |-> FALSE]
    /\ sandboxes = <<>>
    /\ lastClose = NoClose
    /\ call = NoCall

Spec == Init /\ [][Next]_vars

PoolNext ==
    \/ \E n \in 1..MaxPoolSize : \E mask \in Masks(n) : GetPool(n, mask)
    \/ \E timeout \in 0..MaxTimeout : Acquire(timeout)
    \/ \E h \in Handles : Release(h)
    \/ \E n \in 0..MaxPoolSize : \E outs \in [1..n -> Teardowns] : Cleanup(outs)

SpecPool == Init /\ [][PoolNext]_vars

SpecThreads == Init /\ [][ThreadsNext]_vars

\* ------------------------------------------------------ users of AICodeSandbox
Images == {NoImage, "img"}

PackageLists ==
    {NoPackages, DefaultPk, [given |-> TRUE, names |-> {"flask"}],
     [given |-> TRUE, names |-> {}]}

\* AICodeSandbox(custom_image, packages): the object exists also when
\* _setup_sandbox raised, then with whatever it had set by then
New(custom_image, pk) ==
    /\ Len(sandboxes) < MaxSandboxes
    /\ \E s \in SetupSandbox(docker, custom_image, pk) :
         /\ docker' = s.D
         /\ sandboxes' = Append(sandboxes,
                [sb |-> s.sb, made |-> s.sb, closes |-> 0,
                 explicit |-> (custom_image # NoImage \/ pk.given),
                 packages |-> pk.names,
                 created |-> s.created, found |-> s.found,
                 raised |-> s.raised])
    /\ UNCHANGED <<pc, imported, stdout, stderr, garbage, workerHist,
                   lastClose, call, poolVars, poolHist, threadVars>>

\* sandboxes[i].close(), called by the owner or by __del__; closes tells the
\* first call from the later ones
CloseCall(i) ==
    /\ i \in DOMAIN sandboxes
    /\ \E c \in Close(docker, sandboxes[i].sb) :
         /\ docker' = c.D
         /\ lastClose' = [called |-> TRUE, i |-> i, sb |-> sandboxes[i].sb,
                          ops |-> c.ops, out |-> c.out, raised |-> c.raised,
                          nth |-> sandboxes[i].closes + 1]
         /\ sandboxes' = [sandboxes EXCEPT ![i].sb = c.sb, ![i].closes = 1]
    /\ UNCHANGED <<pc, imported, stdout, stderr, garbage, workerHist, call,
                   poolVars, poolHist, threadVars>>

SandboxNext ==
    \/ \E im \in Images : \E pk \in PackageLists : New(im, pk)
    \/ \E i \in 1..MaxSandboxes : CloseCall(i)

SpecSandbox == Init /\ [][SandboxNext]_vars

\* ------------------------------------------------- one call of one function
\* (each behaviour makes one call, on inputs of its choice)
\* run_code from the return of exec_run on
CallRunCodeReturn(exit_code, stdout_b, stderr_b) ==
    /\ call = NoCall
    /\ call' = [fn |-> "run_code", arg |-> <<exit_code, stdout_b, stderr_b>>,
                raised |-> RunCodeReturn(exit_code, stdout_b, stderr_b).raised,
                result |-> RunCodeReturn(exit_code, stdout_b, stderr_b).result]
    /\ UNCHANGED <<poolVars, poolHist, threadVars, workerVars, workerHist,
                   sandboxes, lastClose>>

\* run_code up to exec_run: the command line for code and what sh makes of it
CallExecCommand(code) ==
    /\ call = NoCall
    /\ call' = [fn |-> "exec_command", arg |-> <<code>>, raised |-> FALSE,
                result |-> "",
                parsed |-> ShellSplit(ExecCommand(Dedent(code)))]
    /\ UNCHANGED <<poolVars, poolHist, threadVars, workerVars, workerHist,
                   sandboxes, lastClose>>

CallNext ==
    \/ \E e \in 0..MaxExit : \E o \in Streams : \E d \in Streams :
          CallRunCodeReturn(e, o, d)
    \/ \E code \in Codes : CallExecCommand(code)

SpecCall == Init /\ [][CallNext]_vars


\* ================================================================== claims

\* ---------------------------------------------------------------- worker loop
JsonLines == SelectSeq(stdout, LAMBDA e : e.json)

\* doc is an answer to the line: a parse error for a line that is not JSON,
\* the line's own id for a request object.
Answers(doc, l) ==
    CASE l.kind = "notjson"   -> ~doc.success /\ doc.error = "invalid json"
      [] l.kind = "nonobject" -> ~doc.success
      [] l.kind = "object"    -> doc.id = (IF l.hasId THEN l.id ELSE "unknown")
      [] OTHER                -> FALSE

\* C1: the worker writes exactly one response per non-blank line and none for
\* a blank line, each while that line is the last one read (so the k-th
\* response answers the k-th non-blank line): after every line, the responses
\* written so far are as many as the non-blank lines read so far, and the
\* responses written since the last line was read are one answering it, or
\* none when it was blank.
C1_OneResponsePerLine ==
    /\ answered = nonblank
    /\ nlines > 0 =>
         IF line.kind = "blank"
         THEN JsonLines = <<>>
         ELSE /\ Len(JsonLines) = 1
              /\ Answers(JsonLines[1].doc, line)

C1_Witness ==
    /\ nlines = 2
    /\ nonblank = 1
    /\ answered = 1
    /\ line.kind = "blank"

\* C2: a line that is not JSON, a JSON value that is no object and an object
\* without usable code each get a success=false response and leave the loop
\* awaiting the next line; a valid request, whatever was read before it, is
\* answered under its own id; the loop ends only at end of input or on an
\* interrupt.
C2_BadLinesDoNotStopLoop ==
    /\ pc \in {"await", "eof", "interrupted"}
    /\ (nlines > 0 /\ BadLine(line)) =>
          /\ JsonLines # <<>>
          /\ \A i \in DOMAIN JsonLines : ~JsonLines[i].doc.success
    /\ (nlines > 0 /\ line.valid) =>
          \E i \in DOMAIN JsonLines :
              /\ "id" \in DOMAIN JsonLines[i].doc
              /\ Answers(JsonLines[i].doc, line)

C2_Witness ==
    /\ prevBad = "nonobject"
    /\ line.valid
    /\ \E i \in DOMAIN JsonLines : JsonLines[i].doc.success
    /\ pc = "await"

\* ------------------------------------------------------ persistent container
\* C3: close() on a Sandbox attached to the persistent container issues no
\* stop and no remove on it (first call or repeated), and the default setup
\* that follows creates no container and builds no image: the container it
\* attaches to is the one close() left.
C3_CloseKeepsPersistent ==
    /\ \A r \in docker.issued : r.by # "close"
    /\ (lastSetup.called /\ lastSetup.default /\ lastSetup.afterClose # NoneId)
       => /\ ~lastSetup.created
          /\ ~lastSetup.built
          /\ ~lastSetup.raised => lastSetup.attached = lastSetup.afterClose

\* C4: no stop or remove that this layer issues on the persistent container
\* takes effect, whatever setup, close or a worker request runs into.
C4_PersistentNeverDestroyed ==
    \A r \in docker.issued : ~r.ok

\* C8: whatever a python request provisioned has had close() applied by the
\* time the next line is read, and its failure never leaves the loop.
C8_CleanupBeforeNextLine ==
    [][ /\ (nlines' > nlines => \A g \in garbage : g.closed)
        /\ pc' # "crashed" ]_vars

\* C9: every line on the worker's standard output is a JSON response document.
C9_StdoutOnlyJson ==
    \A i \in DOMAIN stdout : stdout[i].json

\* C10: every response carries an id: the request's id when the line parsed to
\* an object holding one, "unknown" otherwise.
C10_EveryResponseHasId ==
    \A i \in DOMAIN JsonLines :
        /\ "id" \in DOMAIN JsonLines[i].doc
        /\ JsonLines[i].doc.id =
             (IF line.kind = "object" /\ line.hasId THEN line.id ELSE "unknown")

\* C11: every response carries a timings object (stage name -> milliseconds),
\* on every path, the loop boundary's parse-error and exception answers included.
C11_EveryResponseHasTimings ==
    \A i \in DOMAIN JsonLines : "timings" \in DOMAIN JsonLines[i].doc

\* C13: when the code of the request was dispatched and exited with a
\* non-zero status, the response to the request is success=true; a failed
\* execution is data in the payload.
C13_ExecutionFailureIsData ==
    (pc = "await" /\ lastExec.exited /\ lastExec.exit_code # 0)
      => /\ Len(JsonLines) = 1
         /\ JsonLines[1].doc.success

\* C14: a default setup that finds the persistent container running, or
\* starts it and sees it running within the polls, attaches to it and creates
\* no container and no image; one whose container never reaches running
\* raises to the caller and creates no container.
C14_DefaultSetupWithExisting ==
    lastSetup.called =>
      /\ lastSetup.found \in {"running", "started"}
           => /\ ~lastSetup.raised /\ lastSetup.reused
              /\ lastSetup.attached \in PersistentIds(docker)
              /\ ~lastSetup.created /\ ~lastSetup.built
      /\ lastSetup.found = "never_running"
           => lastSetup.raised /\ ~lastSetup.created /\ ~lastSetup.built

\* C18: a bash request whose command is still running after the 30 s gets
\* return code 124 and the timeout message, is answered with success=false
\* carrying that message, leaves no process of the command running when the
\* response is written, and the loop awaits the next line.
C18_BashTimeout ==
    (lastExec.bash /\ lastExec.dispatched /\ ~lastExec.exited
       /\ pc = "await")
      => /\ lastExec.returncode = 124
         /\ Len(JsonLines) = 1
         /\ ~JsonLines[1].doc.success
         /\ JsonLines[1].doc.stderr = "Bash execution timed out (30s)"
         /\ JsonLines[1].doc.error = "Bash execution timed out (30s)"
         /\ lastExec.left = {}

OpsOn(op, id) ==
    {k \in DOMAIN lastClose.ops :
       lastClose.ops[k].op = op /\ lastClose.ops[k].id = id}

\* C15: a Sandbox made with custom_image or packages given, whatever the
\* package list, has a container of its own that does not bear the persistent
\* name and, when there are packages to install, an image built for it; its
\* close() stops that container and removes that image.
C15_ExplicitSetupIsEphemeral ==
    \A i \in DOMAIN sandboxes :
      LET o == sandboxes[i] IN
      (o.explicit /\ ~o.raised) =>
        /\ o.made.container.id # NoneId
        /\ o.made.container.name # Persistent
        /\ o.packages # {} => o.made.temp_image # NoneId
        /\ \A j \in DOMAIN sandboxes \ {i} :
              sandboxes[j].made.container.id # o.made.container.id
        /\ (lastClose.called /\ lastClose.i = i /\ lastClose.nth = 1)
              => /\ OpsOn("stop", o.made.container.id) # {}
                 /\ o.made.temp_image # NoneId
                       => OpsOn("image_remove", o.made.temp_image) # {}

\* C16: close() does not raise, whichever of stop, remove and the image
\* removals fails; after it the Sandbox holds no container and no image, and
\* every later close() of the object makes no call on the runtime.
C16_CloseIdempotent ==
    lastClose.called =>
      /\ ~lastClose.raised
      /\ sandboxes[lastClose.i].sb = NoSandbox
      /\ lastClose.nth > 1 => lastClose.ops = <<>>

\* C16 witness: a second close() of a Sandbox whose first close() failed to
\* remove its container and its image, both still there.
C16_Witness ==
    /\ lastClose.called /\ lastClose.nth = 2 /\ ~lastClose.raised
    /\ lastClose.ops = <<>>
    /\ LET o == sandboxes[lastClose.i] IN
         /\ o.made.container.name # Persistent
         /\ Exists(docker, o.made.container.id)
         /\ o.made.temp_image \in docker.imgs

\* C22: close() of a Sandbox holding a container that is not the persistent
\* one calls both stop and remove on it, also when stop fails, and the
\* container exists afterwards only if the remove call failed.
C22_TeardownComplete ==
    (lastClose.called /\ lastClose.sb.container # NoContainer
       /\ lastClose.sb.container.name # Persistent)
      => LET id == lastClose.sb.container.id IN
         /\ OpsOn("stop", id) # {}
         /\ OpsOn("remove", id) # {}
         /\ Exists(docker, id)
               => \E k \in OpsOn("remove", id) : ~lastClose.ops[k].ok

\* the image-removal attempts of the last close(), in order
ImageOps == SelectSeq(lastClose.ops, LAMBDA r : r.op = "image_remove")

\* C17: close() of a Sandbox that built an image tries to remove it at most 3
\* times, makes no attempt after one that succeeded, and when 3 attempts
\* failed prints the give-up message and returns; with no image built it
\* makes no image-removal attempt.
C17_BoundedImageRetry ==
    lastClose.called =>
      IF lastClose.sb.temp_image = NoneId
      THEN ImageOps = <<>>
      ELSE /\ Len(ImageOps) \in 1..3
           /\ \A k \in DOMAIN ImageOps :
                 /\ ImageOps[k].id = lastClose.sb.temp_image
                 /\ ImageOps[k].ok => k = Len(ImageOps)
           /\ ~ImageOps[Len(ImageOps)].ok => Len(ImageOps) = 3
           /\ (\A k \in DOMAIN ImageOps : ~ImageOps[k].ok)
                 => /\ ~lastClose.raised
                    /\ lastClose.out # <<>>
                    /\ lastClose.out[Len(lastClose.out)] = ErrGiveUp

\* C17 witness: a close() all of whose three removal attempts failed.
C17_Witness ==
    /\ lastClose.called /\ lastClose.sb.temp_image # NoneId
    /\ Len(ImageOps) = 3
    /\ \A k \in DOMAIN ImageOps : ~ImageOps[k].ok
    /\ ~lastClose.raised

\* the step is the first close() of sandboxes[i], a Sandbox made with default
\* arguments whose setup found no persistent container and created it
FirstCloseOfCreator(i) ==
    /\ i \in DOMAIN sandboxes
    /\ ~sandboxes[i].explicit /\ ~sandboxes[i].raised
    /\ sandboxes[i].created /\ sandboxes[i].found = "none"
    /\ sandboxes[i].closes = 0
    /\ sandboxes'[i].closes = 1

\* C24: a Sandbox whose default setup found no persistent container and
\* created it holds the image it built for it as temp_image; its close()
\* makes no call on the persistent container, which stays as it is, and makes
\* 1 to 3 attempts to remove that image.
C24_CreatorRemovesBackingImage ==
    [][ \A i \in 1..MaxSandboxes :
          FirstCloseOfCreator(i) =>
            LET o == sandboxes[i] IN
            /\ o.sb = o.made
            /\ o.sb.container.name = Persistent
            /\ o.sb.temp_image # NoneId
            /\ \A k \in DOMAIN lastClose'.ops :
                  /\ lastClose'.ops[k].op = "image_remove"
                  /\ lastClose'.ops[k].id = o.sb.temp_image
                  /\ lastClose'.ops[k].force
            /\ Len(lastClose'.ops) \in 1..3
            /\ Exists(docker, o.sb.container.id)
                  => /\ Exists(docker', o.sb.container.id)
                     /\ docker'.cs[o.sb.container.id]
                          = docker.cs[o.sb.container.id]
      ]_vars

\* C24 witness: such a Sandbox has been closed, its three attempts on the
\* image failed, and the persistent container it created is running.
C24_Witness ==
    /\ lastClose.called /\ lastClose.nth = 1
    /\ LET o == sandboxes[lastClose.i] IN
         /\ ~o.explicit /\ ~o.raised /\ o.created /\ o.found = "none"
         /\ lastClose.sb = o.made
         /\ o.made.container.name = Persistent
         /\ o.made.temp_image # NoneId
         /\ Exists(docker, o.made.container.id)
         /\ docker.cs[o.made.container.id].status = "running"
    /\ Len(lastClose.ops) = 3
    /\ \A k \in DOMAIN lastClose.ops : ~lastClose.ops[k].ok

\* ------------------------------------------------------------------ run_code
\* text occurs in s
Contains(s, text) ==
    \E i \in 1..(Len(s) - Len(text) + 1) : SubSeq(s, i, i + Len(text) - 1) = text

\* s is text behind a non-empty prefix
Prefixed(s, text) ==
    /\ Len(s) > Len(text)
    /\ SubSeq(s, Len(s) - Len(text) + 1, Len(s)) = text

\* C12: for every exit status and every content of the two streams run_code
\* returns (it does not raise): stdout itself on exit 0 with output, stderr
\* behind a prefix on exit 0 with only diagnostics, "No output" on exit 0 with
\* neither, and a string holding the exit status and stderr on any other exit.
C12_ResultClassification ==
    call.fn = "run_code" =>
       LET exit_code == call.arg[1]
           stdout_b == call.arg[2]
           stderr_b == call.arg[3]
       IN  /\ ~call.raised
           /\ (exit_code = 0 /\ stdout_b # <<>>)
                 => call.result = Text(stdout_b)
           /\ (exit_code = 0 /\ stdout_b = <<>> /\ stderr_b # <<>>)
                 => Prefixed(call.result, Text(stderr_b))
           /\ (exit_code = 0 /\ stdout_b = <<>> /\ stderr_b = <<>>)
                 => call.result = "No output"
           /\ exit_code # 0
                 => /\ Contains(call.result, ToString(exit_code))
                    /\ Contains(call.result, Text(stderr_b))

\* C20: for every code string, sh splits the command line run_code builds
\* into one command of four words, env, python, -c and the dedented code
\* itself: no quote in the code ends the word early or starts another word
\* or command.
C20_QuotingSafe ==
    call.fn = "exec_command" =>
      /\ call.parsed.ok
      /\ call.parsed.cmds
           = << <<EnvWord, PythonWord, DashC, Dedent(call.arg[1])>> >>

\* C20 witness: a code string with a single quote followed by a semicolon
\* reaches the interpreter whole.
C20_Witness ==
    /\ call.fn = "exec_command"
    /\ \E i \in DOMAIN call.arg[1] : \E j \in DOMAIN call.arg[1] :
         i < j /\ call.arg[1][i] = "'" /\ call.arg[1][j] = ";"
    /\ call.parsed.ok
    /\ Len(call.parsed.cmds) = 1
    /\ call.parsed.cmds[1][4] = call.arg[1]

\* ------------------------------------------------------------------ the pool
Members == {containers[i] : i \in DOMAIN containers}

AllCreated == pool_made /\ Len(containers) = pool_size

\* C5: with all pool_size members created and no release so far, an acquire
\* made while fewer than pool_size members have been handed out returns a
\* member none of the earlier calls returned; an acquire made when all
\* pool_size have been handed out returns none, waits its whole timeout and
\* raises.
C5_PoolCapacity ==
    (AllCreated /\ lastAcquire.called /\ ~lastAcquire.relBefore) =>
       LET e == lastAcquire IN
       /\ Cardinality(e.heldBefore) < pool_size =>
             /\ ~e.raised
             /\ e.result \in Members
             /\ e.result \notin e.heldBefore
       /\ Cardinality(e.heldBefore) = pool_size =>
             /\ e.raised
             /\ e.result = NoneId
             /\ e.waited = e.timeout
             /\ e.after = e.before

\* the members not in the in-use set when the last acquire was called, by
\* their place in the member list
FreeBefore == {k \in DOMAIN containers : containers[k] \notin lastAcquire.before}

\* C21: an acquire called while some member is not in the in-use set does not
\* raise and returns the first such member of the member list, whatever the
\* timeout, 0 included.
C21_AcquireFirstFree ==
    (pool_made /\ lastAcquire.called /\ FreeBefore # {}) =>
       /\ ~lastAcquire.raised
       /\ \E k \in FreeBefore :
             /\ \A j \in FreeBefore : k <= j
             /\ lastAcquire.result = containers[k]

\* C23: through get_pool, acquire, release and cleanup calls the in-use set
\* holds ids of pool members only; a step changes it only as an acquire that
\* returns a member, adding that member's id and nothing else, or as a
\* release, removing the given id and nothing else; an acquire that raises
\* leaves it as it was.
C23_InUseSet ==
    /\ [](in_use \subseteq Members)
    /\ [](lastAcquire.raised => lastAcquire.after = lastAcquire.before)
    /\ [][ /\ (lastAcquire' # lastAcquire /\ lastAcquire'.raised)
               => in_use' = in_use
           /\ in_use' # in_use =>
                \/ /\ lastAcquire'.called /\ ~lastAcquire'.raised
                   /\ lastAcquire'.result \in Members \ in_use
                   /\ in_use' = in_use \cup {lastAcquire'.result}
                   /\ lastRelease' = lastRelease /\ lastCleanup' = lastCleanup
                \/ /\ lastRelease'.handle \in in_use
                   /\ in_use' = in_use \ {lastRelease'.handle}
                   /\ lastAcquire' = lastAcquire /\ lastCleanup' = lastCleanup
         ]_vars

\* C23 witness: after a cleanup, with a release made and an acquire that
\* raised, a member is still in the in-use set.
C23_Witness ==
    /\ lastCleanup.called /\ released
    /\ lastAcquire.called /\ lastAcquire.raised
    /\ in_use # {} /\ in_use # Members

\* C6: no member is in the hands of two threads at once.
C6_NoDoubleHandout ==
    \A t1 \in Threads : \A t2 \in Threads :
        t1 # t2 => theld[t1] \cap theld[t2] = {}

\* Acquires that would now succeed one after the other without waiting.
RECURSIVE FurtherAcquires(_, _)
FurtherAcquires(cs, inuse) ==
    LET r == AcquireLoop(cs, inuse, 0, 1) IN
    IF r.raised THEN 0 ELSE 1 + FurtherAcquires(cs, r.in_use)

\* C7: release never raises, changes nothing for a handle that is free or no
\* member, and after any calls the acquires that succeed without waiting are
\* as many as the members not held.
C7_ReleaseIdempotent ==
    /\ ~lastRelease.raised
    /\ lastRelease.handle \notin lastRelease.before
          => lastRelease.after = lastRelease.before
    /\ pool_made =>
          FurtherAcquires(containers, in_use)
             = Len(containers) - Cardinality(held \cap Members)

C7_Witness ==
    /\ lastRelease.handle = ForeignId
    /\ released
    /\ held # {}
    /\ Len(containers) = 2

====
